---- MODULE Spec2Model ----
(***************************************************************************)
(* Frame synchronisation and render-target lifecycle of the renderer:      *)
(* Renderer::new / init_frame_buffers, Renderer::render, Drop for Renderer *)
(* (engine/renderer/mod.rs) and CommandManager (structs/command_manager.rs)*)
(* The host thread is one process (pc); the graphics queue and the         *)
(* presentation engine are agents that run asynchronously to it and are    *)
(* coordinated only through the fence and the binary semaphores.           *)
(***************************************************************************)
EXTENDS Integers, Sequences, FiniteSets, TLC

\* ---- bounds ----
MaxFrames == 2      \* render() calls that may run to completion
MaxImages == 2      \* swapchain image views

\* ---- handles ----
RenderSemaphore  == <<"render_semaphore", 0>>
PresentSemaphore == <<"present_semaphore", 0>>
FrameFence       == <<"fence", 0>>
PipelineHandle   == <<"pipeline", 0>>
RenderPassHandle == <<"render_pass", 0>>
MainPool         == <<"command_pool", 0>>
Meshes           == {<<"mesh", 0>>}
Semaphores       == {RenderSemaphore, PresentSemaphore}
FramebufferOf(i) == <<"framebuffer", i>>

TransferPool(shared) == IF shared THEN MainPool ELSE <<"command_pool", 1>>

AllHandles ==
    Semaphores \cup Meshes
      \cup {FrameFence, PipelineHandle, RenderPassHandle, MainPool, TransferPool(FALSE)}
      \cup {FramebufferOf(i) : i \in 0..MaxImages}

\* swapchain.image_views[i] and swapchain.depth_image_view
ColorView(i) == <<"image_view", i>>
DepthView    == <<"depth_image_view", 0>>
SwapchainImageViews(n) == [i \in 1..n |-> ColorView(i - 1)]

ColorAttachmentOutput == "COLOR_ATTACHMENT_OUTPUT"
Unsignaled == <<"none", 0>>
NoHandle   == <<"null", 0>>

VARIABLES
    pc,            \* position of the host thread
    framenumber,   \* Renderer.framenumber
    numImages,     \* swapchain.image_views.len()
    sharedPool,    \* queue.main_queue_index == queue.transfer_only_queue_index
    framebuffers,  \* Renderer.framebuffers (sequence of handles)
    live,          \* device objects that exist
    destroyed,     \* destroy/free calls issued per handle
    fence,         \* state of Renderer.fence
    sem,           \* state of each semaphore: Unsignaled or the signal's origin
    semWaiters,    \* pending wait operations per semaphore, in submission order
    acqPending,    \* acquire signal operations the presentation engine still owes
    gpu,           \* submissions accepted by the graphics queue, not yet complete
    completed,     \* cycles whose submission finished executing
    presents,      \* present requests queued at the presentation engine
    presented,     \* presents whose semaphore wait was satisfied
    cb,            \* state of main_command_buffer
    recorded,      \* what the last recording put into the command buffer
    imageIndex,    \* image_index of the running render() call
    steps,         \* steps performed by the current / last render() call
    lastSubmit,    \* arguments of the last queue_submit
    lastPresent,   \* arguments of the last present
    outcome,       \* how the last host operation ended
    dropLog,       \* steps performed by the teardown
    fbAttachments, \* attachments each created framebuffer was built with
    logged,        \* messages of the error!() calls of the running render()
    meshVertices,  \* Mesh.vertices of the mesh (host side)
    vertexBuffer,  \* Mesh.vertex_buffer: none, or the buffer and its contents
    callArgs,      \* arguments of a direct call of submit_main_command_buffer
    asset          \* vertex array of the model file, as Mesh::from_path reads it

vars == <<pc, framenumber, numImages, sharedPool, framebuffers, live, destroyed,
          fence, sem, semWaiters, acqPending, gpu, completed, presents,
          presented, cb, recorded, imageIndex, steps, lastSubmit, lastPresent,
          outcome, dropLog, fbAttachments, logged, meshVertices,
          vertexBuffer, callArgs, asset>>

hostVars  == <<pc, framenumber, framebuffers, live, destroyed, cb, recorded,
               imageIndex, steps, lastSubmit, lastPresent, outcome, dropLog>>
constVars == <<numImages, sharedPool, callArgs, asset>>
buildVars == <<fbAttachments, meshVertices, vertexBuffer>>
devVars   == <<fence, sem, semWaiters, acqPending, gpu, completed, presents, presented>>

IsPrefix(s, t) == Len(s) <= Len(t) /\ \A i \in 1..Len(s) : s[i] = t[i]

NoSubmit  == [accepted |-> FALSE, cycle |-> -1, wait |-> <<>>, signal |-> <<>>,
              stages |-> <<>>, stagesRead |-> <<>>, fence |-> NoHandle,
              buffers |-> <<>>,
              cbState |-> "initial"]
NoPresent == [cycle |-> -1, image |-> -1, wait |-> <<>>]
NoRecord  == [cycle |-> -1, framebuffer |-> NoHandle, draws |-> {}, recording |-> FALSE]
NoCallArgs == [wait |-> <<>>, signal |-> <<>>, fence |-> NoHandle]
NoBuffer  == [present |-> FALSE, size |-> 0, bytes |-> <<>>]

MaxWaitSemaphores == 2   \* semaphores in a list given to a submit call

\* ---- bounds of the vertex data ----
MaxVertices == 2    \* vertices of a mesh
VertexSize  == 2    \* size_of::<Vertex>() in bytes
MaxByte     == 1    \* largest value of a byte of vertex data
ByteValues  == 0..MaxByte

\* Contents of a byte of freshly mapped memory that nothing has written yet.
Uninit == -1

\* All vertex arrays of up to MaxVertices vertices.
VertexArrays ==
    UNION {[1..n -> [1..VertexSize -> ByteValues]] : n \in 0..MaxVertices}

\* mesh.vertices.as_ptr() as *const u8: the bytes of the array, vertex after
\* vertex.
RECURSIVE VertexBytes(_)
VertexBytes(vs) ==
    IF vs = <<>> THEN <<>> ELSE Head(vs) \o VertexBytes(Tail(vs))

\* mesh.vertices.len(), without the factor size_of::<Vertex>().
BufferSizeMut(vs) == Len(vs)

\* mesh.vertices.len() * size_of::<Vertex>()
BufferSize(vs) == Len(vs) * VertexSize

\* allocator.create_buffer(size, VERTEX_BUFFER, CpuToGpu): the new allocation,
\* not yet stored in the mesh.
CreateBuffer(size) ==
    [present |-> FALSE, size |-> size, bytes |-> [i \in 1..size |-> Uninit]]

\* std::ptr::copy_nonoverlapping(src, dst, count)
CopyNonoverlapping(src, dst, count) ==
    [i \in 1..Len(dst) |-> IF i <= count THEN src[i] ELSE dst[i]]

\* map_memory, copy_nonoverlapping, unmap_memory on the allocation b.
MapAndCopy(vs, b) ==
    [b EXCEPT !.bytes = CopyNonoverlapping(VertexBytes(vs), b.bytes, BufferSize(vs))]

\* mesh.vertex_buffer = Some(allocated_buffer); mesh.vertices = vec![]
StoreAndDiscard(b) ==
    [vertices |-> <<>>, vertex_buffer |-> [b EXCEPT !.present = TRUE]]

\* upload_mesh when create_buffer and map_memory succeed.
UploadMesh(vs) == StoreAndDiscard(MapAndCopy(vs, CreateBuffer(BufferSize(vs))))

\* Mesh::from_path("assets/models/monkey/monkey.glb").vertices
LoadedVertices == [i \in 1..MaxVertices |-> [j \in 1..VertexSize |-> (i + j) % (MaxByte + 1)]]

Init ==
    /\ pc = "new"
    /\ framenumber = 0
    /\ numImages \in 1..MaxImages
    /\ sharedPool \in BOOLEAN
    /\ framebuffers = <<>>
    /\ live = {RenderPassHandle, MainPool, TransferPool(sharedPool)}
    /\ destroyed = [h \in AllHandles |-> 0]
    /\ fence = "none"
    /\ sem = [s \in Semaphores |-> Unsignaled]
    /\ semWaiters = [s \in Semaphores |-> <<>>]
    /\ acqPending = <<>>
    /\ gpu = <<>>
    /\ completed = {}
    /\ presents = <<>>
    /\ presented = <<>>
    /\ cb = "initial"
    /\ recorded = NoRecord
    /\ imageIndex = -1
    /\ steps = <<>>
    /\ lastSubmit = NoSubmit
    /\ lastPresent = NoPresent
    /\ outcome = "none"
    /\ dropLog = <<>>
    /\ fbAttachments = [h \in {} |-> <<>>]
    /\ logged = {}
    /\ meshVertices = LoadedVertices
    /\ vertexBuffer = NoBuffer
    /\ callArgs = NoCallArgs
    /\ asset = LoadedVertices

\* ------------------------------------------------------------------------
\* Renderer::new
\* ------------------------------------------------------------------------

\* The handles pushed by the loop of init_frame_buffers when the create call
\* of index k is the first to fail (k = n: none fails).
CreatedFramebuffers(k) == [i \in 1..k |-> FramebufferOf(i - 1)]

FramebufferAttachmentsMut(view) == <<DepthView, view>>

\* let attachments = [*image_view, swapchain.depth_image_view];
FramebufferAttachments(view) == <<view, DepthView>>

\* init_frame_buffers and the match on its result in Renderer::new.  On Err
\* the local Vec<Framebuffer> is dropped; a Framebuffer is a plain handle, so
\* dropping the Vec destroys nothing.
InitFrameBuffers ==
    /\ pc = "new"
    /\ \E k \in 0..numImages :
         LET made == CreatedFramebuffers(k) IN
         /\ live' = live \cup {made[i] : i \in 1..k}
         /\ fbAttachments' =
               [h \in {made[i] : i \in 1..k} |->
                  FramebufferAttachments(
                     SwapchainImageViews(numImages)[CHOOSE i \in 1..k : made[i] = h])]
         /\ IF k = numImages
              THEN /\ framebuffers' = made
                   /\ pc' = "new_rest"
                   /\ outcome' = "none"
              ELSE /\ framebuffers' = <<>>
                   /\ pc' = "new_failed"
                   /\ outcome' = "Err:framebuffers"
    /\ UNCHANGED <<framenumber, destroyed, fence, sem, semWaiters, acqPending,
                   gpu, completed, presents, presented, cb, recorded,
                   imageIndex, steps, lastSubmit, lastPresent, dropLog>>
    /\ UNCHANGED constVars
    /\ UNCHANGED <<meshVertices, vertexBuffer>>
    /\ UNCHANGED logged

\* The rest of Renderer::new: shaders and pipeline, the fence (created
\* SIGNALED), both semaphores, the uploaded mesh.
NewFinish ==
    /\ pc = "new_rest"
    /\ \E r \in {"Ok", "Err:new", "panic:upload_mesh"} :
         IF r = "Ok"
           THEN /\ live' = live \cup Semaphores \cup Meshes
                              \cup {PipelineHandle, FrameFence}
                /\ fence' = "signaled"
                /\ meshVertices' = UploadMesh(meshVertices).vertices
                /\ vertexBuffer' = UploadMesh(meshVertices).vertex_buffer
                /\ pc' = "idle"
                /\ outcome' = "Ok"
           ELSE /\ pc' = "new_failed"
                /\ outcome' = r
                /\ UNCHANGED <<live, fence, meshVertices, vertexBuffer>>
    /\ UNCHANGED <<framenumber, framebuffers, destroyed, sem, semWaiters,
                   acqPending, gpu, completed, presents, presented, cb,
                   recorded, imageIndex, steps, lastSubmit, lastPresent, dropLog>>
    /\ UNCHANGED constVars
    /\ UNCHANGED fbAttachments
    /\ UNCHANGED logged

\* ------------------------------------------------------------------------
\* The device side: graphics queue and presentation engine
\* ------------------------------------------------------------------------

\* Semaphores are binary.  Wait operations on one semaphore are satisfied in
\* the order in which they were queued (submit and present go to the same
\* queue); a satisfied wait unsignals the semaphore; a signal operation on a
\* semaphore that is still signaled leaves it signaled, with the new origin.

\* A wait operation on s can be satisfied: s is signaled and w is the oldest
\* wait pending on it.
CanConsume(s, w) ==
    /\ sem[s] # Unsignaled
    /\ semWaiters[s] # <<>>
    /\ Head(semWaiters[s]) = w

SubmitWaiter(c)  == <<"submit", c>>
PresentWaiter(c) == <<"present", c>>

SeqToSet(q) == {q[i] : i \in 1..Len(q)}

CanAcquireSignal == acqPending # <<>>
CanGpuStart ==
    /\ gpu # <<>>
    /\ Head(gpu).state = "queued"
    /\ \A s \in SeqToSet(Head(gpu).wait) : CanConsume(s, SubmitWaiter(Head(gpu).cycle))
CanGpuComplete == gpu # <<>> /\ Head(gpu).state = "executing"
CanPresent ==
    /\ presents # <<>>
    /\ \A s \in SeqToSet(Head(presents).wait) :
          CanConsume(s, PresentWaiter(Head(presents).cycle))

\* No device-side agent can take a step any more.
Quiescent == ~(CanAcquireSignal \/ CanGpuStart \/ CanGpuComplete \/ CanPresent)

\* The presentation engine performs the signal operation of an acquire.
AcquireSignal ==
    /\ CanAcquireSignal
    /\ LET a == Head(acqPending) IN
         sem' = [sem EXCEPT ![a.semaphore] = <<"acquire", a.cycle>>]
    /\ acqPending' = Tail(acqPending)
    /\ UNCHANGED <<fence, semWaiters, gpu, completed, presents, presented>>
    /\ UNCHANGED hostVars
    /\ UNCHANGED constVars
    /\ UNCHANGED buildVars
    /\ UNCHANGED logged

\* The graphics queue starts the oldest submission once its semaphore waits
\* are satisfied; a satisfied wait unsignals the binary semaphore.
GpuStart ==
    /\ CanGpuStart
    /\ LET b == Head(gpu)
           w == SeqToSet(b.wait) IN
         /\ sem' = [s \in Semaphores |-> IF s \in w THEN Unsignaled ELSE sem[s]]
         /\ semWaiters' = [s \in Semaphores |->
                              IF s \in w THEN Tail(semWaiters[s]) ELSE semWaiters[s]]
         /\ gpu' = <<[b EXCEPT !.state = "executing"]>> \o Tail(gpu)
    /\ UNCHANGED <<fence, acqPending, completed, presents, presented>>
    /\ UNCHANGED hostVars
    /\ UNCHANGED constVars
    /\ UNCHANGED buildVars
    /\ UNCHANGED logged

\* The graphics queue finishes the oldest submission: its signal semaphores
\* and its fence are signaled; a ONE_TIME_SUBMIT buffer becomes invalid.
GpuComplete ==
    /\ CanGpuComplete
    /\ LET b == Head(gpu)
           g == SeqToSet(b.signal) IN
         /\ sem' = [s \in Semaphores |->
                       IF s \in g THEN <<"submit", b.cycle>> ELSE sem[s]]
         /\ fence' = IF b.fence = FrameFence THEN "signaled" ELSE fence
         /\ completed' = completed \cup {b.cycle}
    /\ gpu' = Tail(gpu)
    /\ cb' = IF cb = "pending" THEN "invalid" ELSE cb
    /\ UNCHANGED <<semWaiters, acqPending, presents, presented>>
    /\ UNCHANGED <<pc, framenumber, framebuffers, live, destroyed, recorded,
                   imageIndex, steps, lastSubmit, lastPresent, outcome, dropLog>>
    /\ UNCHANGED constVars
    /\ UNCHANGED buildVars
    /\ UNCHANGED logged

\* The presentation engine presents the oldest queued image once the
\* semaphore wait of the request is satisfied.
PresentExec ==
    /\ CanPresent
    /\ LET q == Head(presents)
           w == SeqToSet(q.wait) IN
         /\ presented' = Append(presented,
                [cycle |-> q.cycle, image |-> q.image,
                 by |-> [i \in 1..Len(q.wait) |-> sem[q.wait[i]]],
                 rendered |-> q.cycle \in completed])
         /\ sem' = [s \in Semaphores |-> IF s \in w THEN Unsignaled ELSE sem[s]]
         /\ semWaiters' = [s \in Semaphores |->
                              IF s \in w THEN Tail(semWaiters[s]) ELSE semWaiters[s]]
    /\ presents' = Tail(presents)
    /\ UNCHANGED <<fence, acqPending, gpu, completed>>
    /\ UNCHANGED hostVars
    /\ UNCHANGED constVars
    /\ UNCHANGED buildVars
    /\ UNCHANGED logged

\* ------------------------------------------------------------------------
\* Renderer::render
\* ------------------------------------------------------------------------

CycleSteps == <<"wait_fence", "reset_fence", "acquire", "begin", "record",
                "end", "submit", "present", "advance">>

FenceWaitResultsMut(f, quiescent) == {"SUCCESS", "ERROR_DEVICE_LOST"}

\* device.wait_for_fences(&[fence], true, 1000000000): returns at once when
\* the fence is signaled; otherwise blocks.  The bounded wait expires only
\* when no device-side agent can make progress any more (an agent that can
\* progress does so within the timeout).
FenceWaitResults(f, quiescent) ==
    (IF f = "signaled" THEN {"SUCCESS"}
     ELSE IF quiescent THEN {"TIMEOUT"} ELSE {})
      \cup {"ERROR_DEVICE_LOST"}

RenderWaitFenceMut ==
    /\ pc = "idle"
    /\ framenumber < MaxFrames
    /\ \E r \in FenceWaitResults(fence, Quiescent) :
         IF r = "SUCCESS"
           THEN /\ pc' = "r_reset"
                /\ steps' = <<"wait_fence">>
                /\ outcome' = "running"
           ELSE /\ pc' = "r_reset"
                /\ steps' = <<"wait_fence">>
                /\ outcome' = "panic:wait_fence:" \o r
    /\ imageIndex' = -1
    /\ UNCHANGED <<framenumber, framebuffers, live, destroyed, cb, recorded,
                   lastSubmit, lastPresent, dropLog>>
    /\ UNCHANGED devVars
    /\ UNCHANGED constVars
    /\ UNCHANGED buildVars
    /\ logged' = {}

RenderWaitFence ==
    /\ pc = "idle"
    /\ framenumber < MaxFrames
    /\ \E r \in FenceWaitResults(fence, Quiescent) :
         IF r = "SUCCESS"
           THEN /\ pc' = "r_reset"
                /\ steps' = <<"wait_fence">>
                /\ outcome' = "running"
           ELSE /\ pc' = "panicked"
                /\ steps' = <<>>
                /\ outcome' = "panic:wait_fence:" \o r
    /\ imageIndex' = -1
    /\ UNCHANGED <<framenumber, framebuffers, live, destroyed, cb, recorded,
                   lastSubmit, lastPresent, dropLog>>
    /\ UNCHANGED devVars
    /\ UNCHANGED constVars
    /\ UNCHANGED buildVars
    /\ logged' = {}

RenderResetFence ==
    /\ pc = "r_reset"
    /\ \E ok \in BOOLEAN :
         IF ok
           THEN /\ fence' = "unsignaled"
                /\ pc' = "r_acquire"
                /\ steps' = Append(steps, "reset_fence")
                /\ UNCHANGED outcome
           ELSE /\ pc' = "panicked"
                /\ outcome' = "panic:reset_fence"
                /\ UNCHANGED <<fence, steps>>
    /\ UNCHANGED <<framenumber, framebuffers, live, destroyed, cb, recorded,
                   imageIndex, lastSubmit, lastPresent, dropLog>>
    /\ UNCHANGED <<sem, semWaiters, acqPending, gpu, completed, presents, presented>>
    /\ UNCHANGED constVars
    /\ UNCHANGED buildVars
    /\ UNCHANGED logged

\* What swapchain.acquire_next_image can return.
AcquireResults(n) ==
    {[ok |-> TRUE, index |-> i, err |-> "none"] : i \in 0..(n - 1)}
      \cup {[ok |-> FALSE, index |-> -1, err |-> e] :
               e \in {"ERROR_OUT_OF_DATE_KHR", "ERROR_DEVICE_LOST"}}

RenderAcquire ==
    /\ pc = "r_acquire"
    /\ \E r \in AcquireResults(numImages) :
         IF r.ok
           THEN /\ imageIndex' = r.index
                /\ acqPending' = Append(acqPending,
                       [semaphore |-> PresentSemaphore, cycle |-> framenumber])
                /\ pc' = "r_begin"
                /\ steps' = Append(steps, "acquire")
                /\ UNCHANGED outcome
           ELSE /\ pc' = "panicked"
                /\ outcome' = "panic:acquire:" \o r.err
                /\ UNCHANGED <<imageIndex, acqPending, steps>>
    /\ UNCHANGED <<framenumber, framebuffers, live, destroyed, cb, recorded,
                   lastSubmit, lastPresent, dropLog>>
    /\ UNCHANGED <<fence, sem, semWaiters, gpu, completed, presents, presented>>
    /\ UNCHANGED constVars
    /\ UNCHANGED buildVars
    /\ UNCHANGED logged

\* Messages of the error!() calls in CommandManager.
ResetFailedMessage  == "Failed to reset command buffer"
SubmitFailedMessage == "Failed to submit command buffer"

\* CommandManager::begin_main_command_buffer: a rejected reset is logged and
\* the function returns without beginning; begin is expect()ed.
RenderBegin ==
    /\ pc = "r_begin"
    /\ \E resetOk \in BOOLEAN, beginOk \in BOOLEAN :
         IF ~resetOk
           THEN /\ beginOk
                /\ logged' = logged \cup {<<ResetFailedMessage, framenumber>>}
                /\ pc' = "r_record"
                /\ steps' = Append(steps, "begin")
                /\ UNCHANGED <<cb, outcome>>
           ELSE IF beginOk
             THEN /\ cb' = "recording"
                  /\ pc' = "r_record"
                  /\ steps' = Append(steps, "begin")
                  /\ UNCHANGED <<outcome, logged>>
             ELSE /\ cb' = "initial"
                  /\ pc' = "panicked"
                  /\ outcome' = "panic:begin_command_buffer"
                  /\ UNCHANGED <<steps, logged>>
    /\ UNCHANGED <<framenumber, framebuffers, live, destroyed, recorded,
                   imageIndex, lastSubmit, lastPresent, dropLog>>
    /\ UNCHANGED devVars
    /\ UNCHANGED constVars
    /\ UNCHANGED buildVars

\* Renderer.renderables: Vec::new() in Renderer::new; no code adds to it.
Renderables == <<>>

RenderRecordMut ==
    /\ pc = "r_record"
    /\ imageIndex + 1 \in 1..Len(framebuffers)
    /\ recorded' = [cycle |-> framenumber,
                    framebuffer |-> framebuffers[1],
                    draws |-> Meshes,
                    recording |-> (cb = "recording")]
    /\ pc' = "r_end"
    /\ steps' = Append(steps, "record")
    /\ UNCHANGED <<framenumber, framebuffers, live, destroyed, cb, imageIndex,
                   lastSubmit, lastPresent, outcome, dropLog>>
    /\ UNCHANGED devVars
    /\ UNCHANGED constVars
    /\ UNCHANGED buildVars
    /\ UNCHANGED logged

\* begin_render_pass on framebuffers[image_index], bind_pipeline, then for
\* each entry of self.meshes bind_vertex_buffers, push_constants and draw,
\* then end_render_pass.  None of these calls reports a result.
RenderRecord ==
    /\ pc = "r_record"
    /\ imageIndex + 1 \in 1..Len(framebuffers)
    /\ recorded' = [cycle |-> framenumber,
                    framebuffer |-> framebuffers[imageIndex + 1],
                    draws |-> Meshes,
                    recording |-> (cb = "recording")]
    /\ pc' = "r_end"
    /\ steps' = Append(steps, "record")
    /\ UNCHANGED <<framenumber, framebuffers, live, destroyed, cb, imageIndex,
                   lastSubmit, lastPresent, outcome, dropLog>>
    /\ UNCHANGED devVars
    /\ UNCHANGED constVars
    /\ UNCHANGED buildVars
    /\ UNCHANGED logged

\* end_main_command_buffer().unwrap().  Ending a buffer that is not being
\* recorded is invalid usage: either result can come back.
RenderEnd ==
    /\ pc = "r_end"
    /\ \E ok \in BOOLEAN :
         IF ok
           THEN /\ cb' = IF cb = "recording" THEN "executable" ELSE cb
                /\ pc' = "r_submit"
                /\ steps' = Append(steps, "end")
                /\ UNCHANGED outcome
           ELSE /\ cb' = IF cb = "recording" THEN "invalid" ELSE cb
                /\ pc' = "panicked"
                /\ outcome' = "panic:end_command_buffer"
                /\ UNCHANGED steps
    /\ UNCHANGED <<framenumber, framebuffers, live, destroyed, recorded,
                   imageIndex, lastSubmit, lastPresent, dropLog>>
    /\ UNCHANGED devVars
    /\ UNCHANGED constVars
    /\ UNCHANGED buildVars
    /\ UNCHANGED logged

\* The arguments render passes to submit_main_command_buffer.
RenderSubmitArgs ==
    [wait |-> <<PresentSemaphore>>, signal |-> <<PresentSemaphore>>,
     fence |-> FrameFence]

\* The SubmitInfo built by submit_main_command_buffer.
SubmitInfo(wait, signal) ==
    [stages |-> <<ColorAttachmentOutput>>, wait |-> wait, signal |-> signal]

\* What the queue can read through a pointer of the SubmitInfo.  The arrays
\* &[pipeline_stage_flags] and &[self.main_command_buffer] are temporaries of
\* the let statement that builds submit_info, and build() drops the borrow:
\* at queue_submit both pointers dangle, so the queue reads either the
\* values still in place or whatever replaced them.  It reads count entries,
\* the count field that goes with the pointer: entries past the end of the
\* array q are not part of it.
ReadThroughPointer(q, count) ==
    {[i \in 1..count |-> IF i <= Len(q) THEN q[i] ELSE "OUT_OF_BOUNDS"],
     [i \in 1..count |-> "DANGLING"]}

\* CommandManager::submit_main_command_buffer(wait, signal, fence) called in
\* cycle c: a rejected queue_submit is logged, nothing else.
SubmitEffect(a, c) ==
    LET info == SubmitInfo(a.wait, a.signal) IN
    \E accepted \in BOOLEAN,
       stagesRead \in ReadThroughPointer(info.stages, Len(info.wait)),
       buffersRead \in ReadThroughPointer(<<"main_command_buffer">>, 1) :
      /\ lastSubmit' = [accepted |-> accepted, cycle |-> c,
                        wait |-> info.wait, signal |-> info.signal,
                        stages |-> info.stages, stagesRead |-> stagesRead,
                        fence |-> a.fence,
                        buffers |-> buffersRead, cbState |-> cb]
      /\ IF accepted
           THEN /\ gpu' = Append(gpu,
                      [cycle |-> c, wait |-> info.wait,
                       signal |-> info.signal, fence |-> a.fence,
                       state |-> "queued", draws |-> recorded.draws])
                /\ semWaiters' = [s \in Semaphores |->
                      IF s \in SeqToSet(info.wait)
                        THEN Append(semWaiters[s], SubmitWaiter(c))
                        ELSE semWaiters[s]]
                /\ cb' = IF cb = "executable" THEN "pending" ELSE cb
                /\ UNCHANGED logged
           ELSE /\ logged' = logged \cup {<<SubmitFailedMessage, c>>}
                /\ UNCHANGED <<gpu, semWaiters, cb>>

\* The call of submit_main_command_buffer in render.
RenderSubmit ==
    /\ pc = "r_submit"
    /\ SubmitEffect(RenderSubmitArgs, framenumber)
    /\ pc' = "r_present"
    /\ steps' = Append(steps, "submit")
    /\ UNCHANGED <<framenumber, framebuffers, live, destroyed, recorded,
                   imageIndex, lastPresent, outcome, dropLog>>
    /\ UNCHANGED <<fence, sem, acqPending, completed, presents, presented>>
    /\ UNCHANGED constVars
    /\ UNCHANGED buildVars

PresentedImageMut(acquired) == 0

\* The image index and wait semaphores render hands to swapchain.present.
PresentedImage(acquired) == acquired
PresentWaitSemaphores == <<PresentSemaphore>>

\* swapchain.present(queue, image_index, &[present_semaphore]); whatever it
\* returns is discarded.
RenderPresent ==
    /\ pc = "r_present"
    /\ LET q == [cycle |-> framenumber, image |-> PresentedImage(imageIndex),
                 wait |-> PresentWaitSemaphores] IN
         /\ lastPresent' = q
         /\ presents' = Append(presents, q)
         /\ semWaiters' = [s \in Semaphores |->
               IF s \in SeqToSet(q.wait)
                 THEN Append(semWaiters[s], PresentWaiter(framenumber))
                 ELSE semWaiters[s]]
    /\ pc' = "r_advance"
    /\ steps' = Append(steps, "present")
    /\ UNCHANGED <<framenumber, framebuffers, live, destroyed, cb, recorded,
                   imageIndex, lastSubmit, outcome, dropLog>>
    /\ UNCHANGED <<fence, sem, acqPending, gpu, completed, presented>>
    /\ UNCHANGED constVars
    /\ UNCHANGED buildVars
    /\ UNCHANGED logged

\* self.framenumber += 1; render returns.
RenderAdvance ==
    /\ pc = "r_advance"
    /\ framenumber' = framenumber + 1
    /\ pc' = "idle"
    /\ steps' = Append(steps, "advance")
    /\ outcome' = "returned"
    /\ UNCHANGED <<framebuffers, live, destroyed, cb, recorded, imageIndex,
                   lastSubmit, lastPresent, dropLog>>
    /\ UNCHANGED devVars
    /\ UNCHANGED constVars
    /\ UNCHANGED buildVars
    /\ UNCHANGED logged

\* ------------------------------------------------------------------------
\* Teardown: Drop for Renderer, then Drop for CommandManager (a field of
\* Renderer.boilerplate, dropped after Renderer::drop returns)
\* ------------------------------------------------------------------------

TeardownSteps == <<"wait_fence", "free_meshes", "destroy_semaphores_fence",
                   "destroy_pipeline", "destroy_framebuffers",
                   "destroy_render_pass">>

\* Destroy calls issued for the handles of sequence q, in order.
Destroy(q) ==
    /\ destroyed' = [h \in AllHandles |->
                        destroyed[h] + Cardinality({i \in 1..Len(q) : q[i] = h})]
    /\ live' = live \ SeqToSet(q)

SetToSeq(S) ==
    LET RECURSIVE F(_)
        F(T) == IF T = {} THEN <<>>
                ELSE LET x == CHOOSE y \in T : TRUE IN <<x>> \o F(T \ {x})
    IN F(S)

DropWaitFenceMut ==
    /\ pc \in {"idle", "panicked"}
    /\ \E r \in FenceWaitResults(fence, Quiescent) \cup {"TIMEOUT"} :
         /\ pc' = "d_meshes"
         /\ dropLog' = <<"wait_fence">>
         /\ UNCHANGED outcome
    /\ UNCHANGED <<framenumber, framebuffers, live, destroyed, cb, recorded,
                   imageIndex, steps, lastSubmit, lastPresent>>
    /\ UNCHANGED devVars
    /\ UNCHANGED constVars
    /\ UNCHANGED buildVars
    /\ UNCHANGED logged

\* wait_for_fences(...).expect(...) at the top of drop.  The Renderer is
\* dropped on scope exit or while a panic of render unwinds; a panic inside
\* drop during unwinding aborts the process, otherwise the fields are still
\* dropped.
DropWaitFence ==
    /\ pc \in {"idle", "panicked"}
    /\ \E r \in FenceWaitResults(fence, Quiescent) :
         IF r = "SUCCESS"
           THEN /\ pc' = "d_meshes"
                /\ dropLog' = <<"wait_fence">>
                /\ UNCHANGED outcome
           ELSE /\ pc' = IF pc = "panicked" THEN "aborted" ELSE "cm_drop"
                /\ outcome' = "panic:drop_wait_fence:" \o r
                /\ UNCHANGED dropLog
    /\ UNCHANGED <<framenumber, framebuffers, live, destroyed, cb, recorded,
                   imageIndex, steps, lastSubmit, lastPresent>>
    /\ UNCHANGED devVars
    /\ UNCHANGED constVars
    /\ UNCHANGED buildVars
    /\ UNCHANGED logged

DropUnchanged ==
    /\ UNCHANGED <<framenumber, framebuffers, cb, recorded, imageIndex, steps,
                   lastSubmit, lastPresent, outcome>>
    /\ UNCHANGED devVars
    /\ UNCHANGED constVars
    /\ UNCHANGED buildVars
    /\ UNCHANGED logged

\* Mesh::free(allocator): releases the vertex buffer allocation of the mesh.
MeshFree(m) == <<m>>

FreeAll(q) ==
    LET RECURSIVE F(_)
        F(i) == IF i > Len(q) THEN <<>> ELSE MeshFree(q[i]) \o F(i + 1)
    IN F(1)

\* for mesh in self.meshes.iter_mut() { mesh.free(allocator) }
DropFreeMeshes ==
    /\ pc = "d_meshes"
    /\ Destroy(FreeAll(SetToSeq(Meshes)))
    /\ pc' = "d_sync"
    /\ dropLog' = Append(dropLog, "free_meshes")
    /\ DropUnchanged

DropDestroySync ==
    /\ pc = "d_sync"
    /\ Destroy(<<RenderSemaphore, PresentSemaphore, FrameFence>>)
    /\ pc' = "d_pipeline"
    /\ dropLog' = Append(dropLog, "destroy_semaphores_fence")
    /\ DropUnchanged

\* ManuallyDrop::drop(&mut self.mesh_pipeline)
DropPipeline ==
    /\ pc = "d_pipeline"
    /\ Destroy(<<PipelineHandle>>)
    /\ pc' = "d_framebuffers"
    /\ dropLog' = Append(dropLog, "destroy_pipeline")
    /\ DropUnchanged

DropFramebuffers ==
    /\ pc = "d_framebuffers"
    /\ Destroy(framebuffers)
    /\ pc' = "d_render_pass"
    /\ dropLog' = Append(dropLog, "destroy_framebuffers")
    /\ DropUnchanged

DropRenderPassMut ==
    /\ pc = "d_framebuffers"
    /\ Destroy(<<RenderPassHandle>>)
    /\ pc' = "cm_drop"
    /\ dropLog' = Append(dropLog, "destroy_render_pass")
    /\ DropUnchanged

DropRenderPass ==
    /\ pc = "d_render_pass"
    /\ Destroy(<<RenderPassHandle>>)
    /\ pc' = "cm_drop"
    /\ dropLog' = Append(dropLog, "destroy_render_pass")
    /\ DropUnchanged

CommandManagerPoolsMut(main, transfer) == <<main, transfer>>

\* The pools Drop for CommandManager destroys.
CommandManagerPools(main, transfer) ==
    IF main # transfer THEN <<main, transfer>> ELSE <<main>>

CommandManagerDrop ==
    /\ pc = "cm_drop"
    /\ Destroy(CommandManagerPools(MainPool, TransferPool(sharedPool)))
    /\ pc' = "done"
    /\ UNCHANGED dropLog
    /\ DropUnchanged

\* ------------------------------------------------------------------------

Next ==
    \/ InitFrameBuffers
    \/ NewFinish
    \/ RenderWaitFence
    \/ RenderResetFence
    \/ RenderAcquire
    \/ RenderBegin
    \/ RenderRecord
    \/ RenderEnd
    \/ RenderSubmit
    \/ RenderPresent
    \/ RenderAdvance
    \/ DropWaitFence
    \/ DropFreeMeshes
    \/ DropDestroySync
    \/ DropPipeline
    \/ DropFramebuffers
    \/ DropRenderPass
    \/ CommandManagerDrop
    \/ AcquireSignal
    \/ GpuStart
    \/ GpuComplete
    \/ PresentExec

Spec == Init /\ [][Next]_vars

\* ------------------------------------------------------------------------
\* upload_mesh on its own, for every vertex array
\* ------------------------------------------------------------------------

uploadRest == <<framenumber, framebuffers, live, destroyed, cb, recorded,
                imageIndex, steps, lastSubmit, lastPresent, dropLog,
                fbAttachments, logged>>

InitUpload ==
    /\ pc = "u_create"
    /\ asset \in VertexArrays
    /\ meshVertices = asset
    /\ vertexBuffer = NoBuffer
    /\ framenumber = 0
    /\ numImages = 1
    /\ sharedPool = TRUE
    /\ framebuffers = <<>>
    /\ live = {RenderPassHandle, MainPool, TransferPool(sharedPool)}
    /\ destroyed = [h \in AllHandles |-> 0]
    /\ fence = "none"
    /\ sem = [s \in Semaphores |-> Unsignaled]
    /\ semWaiters = [s \in Semaphores |-> <<>>]
    /\ acqPending = <<>>
    /\ gpu = <<>>
    /\ completed = {}
    /\ presents = <<>>
    /\ presented = <<>>
    /\ cb = "initial"
    /\ recorded = NoRecord
    /\ imageIndex = -1
    /\ steps = <<>>
    /\ lastSubmit = NoSubmit
    /\ lastPresent = NoPresent
    /\ outcome = "none"
    /\ dropLog = <<>>
    /\ fbAttachments = [h \in {} |-> <<>>]
    /\ logged = {}
    /\ callArgs = NoCallArgs

UploadCreateBuffer ==
    /\ pc = "u_create"
    /\ \E ok \in BOOLEAN :
         IF ok
           THEN /\ vertexBuffer' = CreateBuffer(BufferSize(meshVertices))
                /\ pc' = "u_map"
                /\ UNCHANGED outcome
           ELSE /\ pc' = "u_panicked"
                /\ outcome' = "panic:create_buffer"
                /\ UNCHANGED vertexBuffer
    /\ UNCHANGED meshVertices
    /\ UNCHANGED uploadRest
    /\ UNCHANGED devVars
    /\ UNCHANGED constVars

UploadMapAndCopy ==
    /\ pc = "u_map"
    /\ \E ok \in BOOLEAN :
         IF ok
           THEN /\ vertexBuffer' = MapAndCopy(meshVertices, vertexBuffer)
                /\ pc' = "u_copied"
                /\ UNCHANGED outcome
           ELSE /\ pc' = "u_panicked"
                /\ outcome' = "panic:map_memory"
                /\ UNCHANGED vertexBuffer
    /\ UNCHANGED meshVertices
    /\ UNCHANGED uploadRest
    /\ UNCHANGED devVars
    /\ UNCHANGED constVars

UploadStore ==
    /\ pc = "u_copied"
    /\ vertexBuffer' = StoreAndDiscard(vertexBuffer).vertex_buffer
    /\ meshVertices' = StoreAndDiscard(vertexBuffer).vertices
    /\ pc' = "u_done"
    /\ outcome' = "Ok"
    /\ UNCHANGED uploadRest
    /\ UNCHANGED devVars
    /\ UNCHANGED constVars

NextUpload ==
    \/ UploadCreateBuffer
    \/ UploadMapAndCopy
    \/ UploadStore

SpecUpload == InitUpload /\ [][NextUpload]_vars

\* ------------------------------------------------------------------------
\* submit_main_command_buffer on its own, for every list of semaphores
\* ------------------------------------------------------------------------

\* The &[Semaphore] slices a caller can pass.
SemaphoreLists ==
    UNION {[1..n -> Semaphores] : n \in 0..MaxWaitSemaphores}

\* A constructed renderer (one swapchain image) whose main command buffer has
\* been recorded and ended, about to call submit_main_command_buffer.
InitSubmit ==
    /\ pc = "submit_call"
    /\ callArgs \in [wait : SemaphoreLists, signal : SemaphoreLists,
                      fence : {FrameFence, NoHandle}]
    /\ framenumber = 0
    /\ numImages = 1
    /\ sharedPool = TRUE
    /\ framebuffers = CreatedFramebuffers(1)
    /\ live = {RenderPassHandle, MainPool, TransferPool(sharedPool),
               FramebufferOf(0), PipelineHandle, FrameFence}
                 \cup Semaphores \cup Meshes
    /\ destroyed = [h \in AllHandles |-> 0]
    /\ fence = "unsignaled"
    /\ sem = [s \in Semaphores |-> Unsignaled]
    /\ semWaiters = [s \in Semaphores |-> <<>>]
    /\ acqPending = <<>>
    /\ gpu = <<>>
    /\ completed = {}
    /\ presents = <<>>
    /\ presented = <<>>
    /\ cb = "executable"
    /\ recorded = [cycle |-> 0, framebuffer |-> FramebufferOf(0),
                   draws |-> Meshes, recording |-> TRUE]
    /\ imageIndex = 0
    /\ steps = <<>>
    /\ lastSubmit = NoSubmit
    /\ lastPresent = NoPresent
    /\ outcome = "none"
    /\ dropLog = <<>>
    /\ fbAttachments = [h \in {FramebufferOf(0)} |->
                           FramebufferAttachments(ColorView(0))]
    /\ logged = {}
    /\ asset = LoadedVertices
    /\ meshVertices = UploadMesh(asset).vertices
    /\ vertexBuffer = UploadMesh(asset).vertex_buffer

SubmitMainCommandBuffer ==
    /\ pc = "submit_call"
    /\ SubmitEffect(callArgs, framenumber)
    /\ pc' = "submit_done"
    /\ UNCHANGED <<framenumber, framebuffers, live, destroyed, recorded,
                   imageIndex, steps, lastPresent, outcome, dropLog>>
    /\ UNCHANGED <<fence, sem, acqPending, completed, presents, presented>>
    /\ UNCHANGED constVars
    /\ UNCHANGED buildVars

NextSubmit == SubmitMainCommandBuffer

SpecSubmit == InitSubmit /\ [][NextSubmit]_vars

\* ------------------------------------------------------------------------
\* Properties
\* ------------------------------------------------------------------------

InRenderAfterReset ==
    pc \in {"r_acquire", "r_begin", "r_record", "r_end", "r_submit"}

\* C1: the steps of a render() call occur in the order wait, reset, acquire,
\* begin, record, end, submit, present, advance, none twice; a call that
\* returns has performed all of them; the fence is unsignaled (reset after
\* the wait) from the reset up to the submit; the submit and the present
\* belong to this call and the image presented is the image acquired.
C1_FrameCycleOrder ==
    /\ IsPrefix(steps, CycleSteps)
    /\ (outcome = "returned" =>
          /\ steps = CycleSteps
          /\ lastSubmit.cycle = framenumber - 1
          /\ lastPresent.cycle = framenumber - 1)
    /\ (InRenderAfterReset => fence = "unsignaled")
    /\ (Len(steps) >= 8 => lastPresent.image = imageIndex)

C1_Witness ==
    /\ outcome = "returned"
    /\ framenumber = 2
    /\ lastPresent.image = 1

\* C2: the submit of a frame cycle waits on the present-semaphore, signals
\* the render-semaphore (not the semaphore it waits on) and uses the frame
\* fence as completion fence.
C2_SubmitWaitsPresentSignalsRender ==
    lastSubmit.cycle >= 0 =>
       /\ lastSubmit.wait = <<PresentSemaphore>>
       /\ lastSubmit.signal = <<RenderSemaphore>>
       /\ SeqToSet(lastSubmit.signal) \cap SeqToSet(lastSubmit.wait) = {}
       /\ lastSubmit.fence = FrameFence

\* C3: the semaphore wait of a present is satisfied only by the completion
\* signal of the submit of the same cycle (so the image is presented after
\* the GPU finished that cycle's command buffer), never by the signal of the
\* acquire and never without an accepted submit.
C3_PresentAfterRender ==
    \A i \in 1..Len(presented) :
       /\ presented[i].rendered
       /\ \A j \in 1..Len(presented[i].by) :
             presented[i].by[j] = <<"submit", presented[i].cycle>>

\* C4: when every submitted command buffer has been completed by the GPU,
\* the fence wait at the start of render() does not time out.
C4_FenceWaitNeverTimesOut ==
    outcome = "panic:wait_fence:TIMEOUT" => gpu # <<>>

\* C5: at most one submission is in flight, and from the successful fence
\* wait of a render() call up to its submit (the span in which the main
\* command buffer is reset, recorded and ended) none is in flight.
C5_NoReuseWhileInFlight ==
    /\ Len(gpu) <= 1
    /\ (pc = "r_reset" \/ InRenderAfterReset => gpu = <<>>)
    /\ (cb \in {"recording", "executable"} => gpu = <<>>)

C5_Witness ==
    /\ pc = "r_record"
    /\ cb = "recording"
    /\ framenumber = 1
    /\ 0 \in completed

RendererHandles ==
    Meshes \cup Semaphores \cup {FrameFence, PipelineHandle, RenderPassHandle}
      \cup SeqToSet(framebuffers)

\* C6: teardown is one linear sequence: fence wait, mesh frees, semaphores
\* and fence, pipeline, framebuffers, render pass.  Nothing is destroyed
\* unless the fence wait succeeded, and the render pass is destroyed only
\* when no framebuffer and no pipeline exists any more.
C6_TeardownOrder ==
    /\ IsPrefix(dropLog, TeardownSteps)
    /\ ((\E h \in RendererHandles : destroyed[h] > 0) =>
           /\ dropLog # <<>>
           /\ fence = "signaled"
           /\ \A m \in Meshes : destroyed[m] > 0)
    /\ ((\E h \in Semaphores \cup {FrameFence} : destroyed[h] > 0) =>
           \A m \in Meshes : destroyed[m] > 0)
    /\ (destroyed[PipelineHandle] > 0 =>
           \A h \in Semaphores \cup {FrameFence} : destroyed[h] > 0)
    /\ ((\E h \in SeqToSet(framebuffers) : destroyed[h] > 0) =>
           destroyed[PipelineHandle] > 0)
    /\ (destroyed[RenderPassHandle] > 0 =>
           /\ PipelineHandle \notin live
           /\ \A i \in 0..MaxImages : FramebufferOf(i) \notin live)

C6_Witness ==
    /\ pc = "cm_drop"
    /\ dropLog = TeardownSteps
    /\ Len(framebuffers) = 2
    /\ framenumber > 0

\* C7: once a mesh has been freed, no submission that binds its vertex
\* buffer is queued or executing.
C7_MeshFreedAfterCompletion ==
    \A m \in Meshes :
       destroyed[m] > 0 => \A i \in 1..Len(gpu) : m \notin gpu[i].draws

C7_Witness ==
    /\ \A m \in Meshes : destroyed[m] > 0
    /\ completed = {0, 1}

\* C8: no handle is destroyed more than once by Renderer drop followed by
\* CommandManager drop, and at the end each command pool has been destroyed
\* exactly once, also when both roles share one pool.
C8_DestroyedAtMostOnce ==
    /\ \A h \in AllHandles : destroyed[h] <= 1
    /\ (pc = "done" =>
          /\ destroyed[MainPool] = 1
          /\ destroyed[TransferPool(sharedPool)] = 1)

C8_Witness ==
    /\ pc = "done"
    /\ sharedPool
    /\ dropLog = TeardownSteps
    /\ destroyed[MainPool] = 1

\* C9: an out-of-date surface reported by the acquire does not crash
\* render(): the call ends with an outcome other than a panic.
C9_OutOfDateIsReturned ==
    outcome = "panic:acquire:ERROR_OUT_OF_DATE_KHR" => pc # "panicked"

\* C10: when init_frame_buffers fails, no framebuffer it created exists any
\* more.
C10_NoFramebufferLeak ==
    outcome = "Err:framebuffers" =>
       \A i \in 0..MaxImages : FramebufferOf(i) \notin live

\* C11: after init_frame_buffers succeeded there is one frame target per
\* swapchain image view, in swapchain order, target i built with exactly
\* [color view i, depth view]; render() calls and teardown never change this.
C11_OneTargetPerView ==
    (pc # "new" /\ outcome # "Err:framebuffers") =>
       /\ Len(framebuffers) = Len(SwapchainImageViews(numImages))
       /\ \A i \in 1..Len(framebuffers) :
             /\ framebuffers[i] \in DOMAIN fbAttachments
             /\ fbAttachments[framebuffers[i]] = <<ColorView(i - 1), DepthView>>
             /\ \A j \in 1..Len(framebuffers) :
                   framebuffers[j] = framebuffers[i] => j = i

C11_Witness ==
    /\ outcome = "returned"
    /\ framenumber = 2
    /\ Len(framebuffers) = 2
    /\ fbAttachments[framebuffers[2]] = <<ColorView(1), DepthView>>

\* C12: the draws recorded in a frame cycle are one per entry of the
\* renderable set; with the empty renderable set left by Renderer::new a
\* cycle records no draw.
C12_DrawsAreRenderables ==
    recorded.cycle >= 0 => Cardinality(recorded.draws) = Len(Renderables)

\* C13: when reset, begin or end of the main command buffer fails, the
\* failure is logged, nothing is submitted or presented for that cycle, and
\* the process does not panic.
C13_RecorderFailureDropsFrame ==
    /\ \A e \in logged :
          e[1] = ResetFailedMessage =>
             lastSubmit.cycle # e[2] /\ lastPresent.cycle # e[2]
    /\ outcome \notin {"panic:begin_command_buffer", "panic:end_command_buffer"}

\* C14: a fence wait that times out at the start of render() ends the call
\* there: the call panics without retrying, and it has performed no fence
\* reset, acquire, command-buffer reset or recording, submit or present.
C14_TimeoutAbandonsCycle ==
    outcome = "panic:wait_fence:TIMEOUT" =>
       /\ pc = "panicked"
       /\ steps = <<>>
       /\ fence = "unsignaled"
       /\ imageIndex = -1
       /\ \A i \in 1..Len(acqPending) : acqPending[i].cycle < framenumber
       /\ cb # "recording"
       /\ recorded.cycle < framenumber
       /\ lastSubmit.cycle < framenumber
       /\ lastPresent.cycle < framenumber

C14_Witness ==
    /\ outcome = "panic:wait_fence:TIMEOUT"
    /\ framenumber = 1
    /\ lastSubmit.cycle = 0
    /\ ~lastSubmit.accepted

\* C15: for every vertex array, upload_mesh allocates a buffer of exactly
\* count(vertices) * size_of(Vertex) bytes; right after the copy the buffer
\* holds the bytes of the source vertices while the host list is still there;
\* only then is the host list discarded, leaving an empty list and a present
\* buffer handle with the same contents.
C15_UploadRoundTrip ==
    /\ pc \in {"u_map", "u_copied", "u_done"} =>
            /\ vertexBuffer.size = Len(asset) * VertexSize
            /\ Len(vertexBuffer.bytes) = vertexBuffer.size
    /\ pc \in {"u_copied", "u_done"} =>
            \A i \in 1..Len(asset) : \A j \in 1..VertexSize :
                vertexBuffer.bytes[(i - 1) * VertexSize + j] = asset[i][j]
    /\ pc \in {"u_create", "u_map", "u_copied"} =>
            /\ meshVertices = asset
            /\ ~vertexBuffer.present
    /\ pc = "u_done" =>
            /\ meshVertices = <<>>
            /\ vertexBuffer.present

C15_Witness ==
    /\ pc = "u_done"
    /\ Len(asset) = 2
    /\ asset[1] # asset[2]
    /\ asset[1][1] # asset[1][2]
    /\ vertexBuffer.bytes = asset[1] \o asset[2]

\* C16: within a render() cycle the recorder is driven in the order begin,
\* render-pass operations, end, submit, each step only after the previous one
\* succeeded: commands are recorded only into a command buffer that is in the
\* recording state, and only a successfully ended (executable) buffer is
\* submitted.
C16_RecorderStrictlyOrdered ==
    /\ recorded.cycle >= 0 => recorded.recording
    /\ lastSubmit.cycle >= 0 => lastSubmit.cbState = "executable"

\* C17: after every render() call that returns, the frame fence is signaled
\* or is attached to an accepted submission that has not completed yet, also
\* when the queue submission of the cycle was rejected and only reported.
C17_FenceSatisfiableAfterRender ==
    (pc = "idle" /\ outcome = "returned") =>
        \/ fence = "signaled"
        \/ \E i \in 1..Len(gpu) : gpu[i].fence = FrameFence

\* C18: for every call of submit_main_command_buffer with n wait semaphores
\* (n >= 0) the list of wait stages handed to the queue has exactly n entries,
\* the queue reads the color-attachment-output stage for each wait semaphore,
\* and every given signal semaphore and the given fence are attached.
C18_OneStagePerWaitSemaphore ==
    lastSubmit.cycle >= 0 =>
        /\ Len(lastSubmit.stages) = Len(lastSubmit.wait)
        /\ Len(lastSubmit.stagesRead) = Len(lastSubmit.wait)
        /\ \A i \in 1..Len(lastSubmit.stagesRead) :
               lastSubmit.stagesRead[i] = ColorAttachmentOutput
        /\ lastSubmit.wait = callArgs.wait
        /\ lastSubmit.signal = callArgs.signal
        /\ lastSubmit.fence = callArgs.fence

\* C19: teardown always completes: whenever the Renderer is dropped (after
\* new(), after completed render() calls, or after a render() call that
\* panicked at any step) and the device is not lost, the fence wait in drop
\* is satisfied and every object the renderer owns is destroyed.
C19_TeardownCompletes ==
    (pc \in {"cm_drop", "done", "aborted"}
        /\ outcome # "panic:drop_wait_fence:ERROR_DEVICE_LOST") =>
        /\ outcome # "panic:drop_wait_fence:TIMEOUT"
        /\ dropLog # <<>>
        /\ \A h \in RendererHandles : h \notin live /\ destroyed[h] = 1

\* C20: a semaphore is never destroyed while an operation that waits on it
\* or will signal it is still pending: when drop destroys the semaphores, no
\* acquire, submission or present that names the semaphore is outstanding.
C20_NoSemaphoreDestroyedWhilePending ==
    \A s \in Semaphores :
        destroyed[s] > 0 =>
            /\ semWaiters[s] = <<>>
            /\ \A i \in 1..Len(acqPending) : acqPending[i].semaphore # s
            /\ \A i \in 1..Len(gpu) :
                   s \notin SeqToSet(gpu[i].wait) \cup SeqToSet(gpu[i].signal)
            /\ \A i \in 1..Len(presents) : s \notin SeqToSet(presents[i].wait)

\* C21: in every frame cycle the image index returned by acquire selects an
\* existing frame target (image_index < count(framebuffers)) at the lookup
\* in render(), and the frame target used for recording is the one built
\* from the view of the acquired image.
C21_ImageIndexSelectsTarget ==
    /\ pc \in {"r_begin", "r_record", "r_end", "r_submit", "r_present", "r_advance"} =>
            /\ imageIndex >= 0
            /\ imageIndex < Len(framebuffers)
    /\ pc \in {"r_end", "r_submit", "r_present", "r_advance"} =>
            /\ recorded.cycle = framenumber
            /\ recorded.framebuffer \in live
            /\ recorded.framebuffer \in DOMAIN fbAttachments
            /\ fbAttachments[recorded.framebuffer][1] = ColorView(imageIndex)

C21_Witness ==
    /\ pc = "r_end"
    /\ framenumber = 1
    /\ imageIndex = 1
    /\ Len(framebuffers) = 2
    /\ fbAttachments[recorded.framebuffer][1] = ColorView(1)

====
